---- MODULE Spec2Model ----
(***************************************************************************)
(* ypb: a content-addressed paste service.  PUT / stores the request body  *)
(* under the base64url text of its CRC-32, GET /{hash}[.ext] renders it,    *)
(* DELETE /{hash} removes it when the body equals the file's modification  *)
(* time in whole seconds, and a background task removes aged files.        *)
(*                                                                         *)
(* Texts (file contents, route segments, secrets, response bodies) are     *)
(* sequences of byte values 0..255.  Time is counted in ticks of           *)
(* 1/TicksPerSec second, so that the truncation done by as_secs() is       *)
(* visible.                                                                *)
(***************************************************************************)
EXTENDS Integers, Sequences, FiniteSets

(* ------------------------------------------------------------------ *)
(* Bounds of the model                                                 *)
(* ------------------------------------------------------------------ *)

\* the clock stops advancing at MaxTime ticks
MaxTime == 4

\* at most MaxFiles files are kept in the storage directory at a time
MaxFiles == 2

\* the longest route segment made of '/', '.' and 'A'
MaxSeg == 4

(* ------------------------------------------------------------------ *)
(* Bytes and bits                                                      *)
(* ------------------------------------------------------------------ *)

\* the 8 bits of a byte, least significant first
RECURSIVE BitsLsb(_, _)
BitsLsb(n, k) == IF k = 0 THEN <<>> ELSE <<n % 2>> \o BitsLsb(n \div 2, k - 1)

\* the number a sequence of bits (most significant first) denotes
RECURSIVE BitsToNat(_)
BitsToNat(bits) ==
    IF bits = <<>> THEN 0
    ELSE 2 * BitsToNat(SubSeq(bits, 1, Len(bits) - 1)) + bits[Len(bits)]

Reverse(s) == [i \in 1..Len(s) |-> s[Len(s) + 1 - i]]

XorBits(a, b) == [i \in 1..Len(a) |-> (a[i] + b[i]) % 2]

RECURSIVE Concat(_)
Concat(ss) == IF ss = <<>> THEN <<>> ELSE Head(ss) \o Concat(Tail(ss))

(* ------------------------------------------------------------------ *)
(* crc::Crc::<u32>::new(&crc::CRC_32_ISO_HDLC).checksum(bytes)         *)
(* A 32-bit register, kept as 32 bits with the least significant bit   *)
(* first (the algorithm is reflected): init 0xFFFFFFFF, polynomial     *)
(* 0xEDB88320 (reflected 0x04C11DB7), final xor 0xFFFFFFFF.            *)
(* ------------------------------------------------------------------ *)

AllOnes32 == [i \in 1..32 |-> 1]

\* 0xEDB88320, least significant bit first
PolyLsb == BitsLsb(32, 8) \o BitsLsb(131, 8) \o BitsLsb(184, 8) \o BitsLsb(237, 8)

\* one shift of the register: crc = (crc >> 1) ^ (crc & 1 ? poly : 0)
CrcShift(reg) ==
    LET shifted == Tail(reg) \o <<0>>
    IN  IF reg[1] = 1 THEN XorBits(shifted, PolyLsb) ELSE shifted

RECURSIVE CrcShifts(_, _)
CrcShifts(reg, k) == IF k = 0 THEN reg ELSE CrcShifts(CrcShift(reg), k - 1)

\* the crate's lookup table: the register after a byte went through 8 shifts
CrcTable ==
    [b \in 0..255 |-> CrcShifts(BitsLsb(b, 8) \o [i \in 1..24 |-> 0], 8)]

\* feed one byte: crc = table[(crc ^ byte) & 0xFF] ^ (crc >> 8)
CrcByte(reg, byte) ==
    LET low == BitsToNat(Reverse(XorBits(SubSeq(reg, 1, 8), BitsLsb(byte, 8))))
    IN  XorBits(CrcTable[low], SubSeq(reg, 9, 32) \o [i \in 1..8 |-> 0])

RECURSIVE CrcFeed(_, _)
CrcFeed(reg, bytes) ==
    IF bytes = <<>> THEN reg ELSE CrcFeed(CrcByte(reg, Head(bytes)), Tail(bytes))

\* the checksum as 32 bits, most significant first
Checksum(bytes) == Reverse(XorBits(CrcFeed(AllOnes32, bytes), AllOnes32))

\* u32::to_be_bytes: the 4 bytes, most significant first
ToBeBytes(bits32) == [i \in 1..4 |-> BitsToNat(SubSeq(bits32, 8 * i - 7, 8 * i))]

(* ------------------------------------------------------------------ *)
(* base64::engine::general_purpose::URL_SAFE_NO_PAD.encode             *)
(* ------------------------------------------------------------------ *)

\* the ASCII code of the URL-safe alphabet's i-th symbol: A-Z a-z 0-9 - _
Base64UrlChar(i) ==
    IF i < 26 THEN 65 + i
    ELSE IF i < 52 THEN 97 + (i - 26)
    ELSE IF i < 62 THEN 48 + (i - 52)
    ELSE IF i = 62 THEN 45
    ELSE 95

\* 6 bits per symbol, the last group padded with zero bits, no '=' appended
RECURSIVE EncodeBits(_)
EncodeBits(bits) ==
    IF bits = <<>> THEN <<>>
    ELSE IF Len(bits) < 6
         THEN <<Base64UrlChar(BitsToNat(bits \o [i \in 1..(6 - Len(bits)) |-> 0]))>>
         ELSE <<Base64UrlChar(BitsToNat(SubSeq(bits, 1, 6)))>>
              \o EncodeBits(SubSeq(bits, 7, Len(bits)))

Base64UrlNoPad(bytes) ==
    EncodeBits(Concat([i \in 1..Len(bytes) |-> Reverse(BitsLsb(bytes[i], 8))]))

(* ------------------------------------------------------------------ *)
(* Program constants                                                   *)
(* ------------------------------------------------------------------ *)

\* Args::limit_size, the upload limit in bytes (scaled down)
LimitSize == 5

\* Args::clean_period, the retention period in seconds (scaled down)
CleanPeriod == 1

\* clock ticks per second: Duration and SystemTime are finer than a second
TicksPerSec == 2

\* Args::syntax_theme, "vs"
SyntaxTheme == <<118, 115>>

(* ------------------------------------------------------------------ *)
(* Texts                                                               *)
(* ------------------------------------------------------------------ *)

StartsWith(s, prefix) ==
    Len(s) >= Len(prefix) /\ SubSeq(s, 1, Len(prefix)) = prefix

\* str::contains with a set of characters: some byte of s is in chars
ContainsAny(s, chars) == \E i \in 1..Len(s) : s[i] \in chars

\* p occurs in s as a contiguous run of bytes
Occurs(p, s) ==
    \E i \in 0..(Len(s) - Len(p)) : SubSeq(s, i + 1, i + Len(p)) = p

\* std::str::from_utf8: the length of the well-formed UTF-8 sequence that
\* starts s, or 0 when s does not start with one
Utf8Width(s) ==
    LET b0 == s[1]
        c(i, lo, hi) == Len(s) >= i /\ s[i] >= lo /\ s[i] <= hi
    IN  IF b0 < 128 THEN 1
        ELSE IF b0 >= 194 /\ b0 <= 223 /\ c(2, 128, 191) THEN 2
        ELSE IF b0 = 224 /\ c(2, 160, 191) /\ c(3, 128, 191) THEN 3
        ELSE IF b0 >= 225 /\ b0 <= 236 /\ c(2, 128, 191) /\ c(3, 128, 191) THEN 3
        ELSE IF b0 = 237 /\ c(2, 128, 159) /\ c(3, 128, 191) THEN 3
        ELSE IF b0 >= 238 /\ b0 <= 239 /\ c(2, 128, 191) /\ c(3, 128, 191) THEN 3
        ELSE IF b0 = 240 /\ c(2, 144, 191) /\ c(3, 128, 191) /\ c(4, 128, 191) THEN 4
        ELSE IF b0 >= 241 /\ b0 <= 243 /\ c(2, 128, 191) /\ c(3, 128, 191)
                /\ c(4, 128, 191) THEN 4
        ELSE IF b0 = 244 /\ c(2, 128, 143) /\ c(3, 128, 191) /\ c(4, 128, 191) THEN 4
        ELSE 0

RECURSIVE IsUtf8(_)
IsUtf8(s) ==
    IF s = <<>> THEN TRUE
    ELSE LET w == Utf8Width(s)
         IN  w > 0 /\ IsUtf8(SubSeq(s, w + 1, Len(s)))

\* u64::to_string: decimal digits, no sign, no leading zero
RECURSIVE U64ToString(_)
U64ToString(n) ==
    IF n < 10 THEN <<48 + n>> ELSE U64ToString(n \div 10) \o <<48 + (n % 10)>>

\* Duration::as_secs: whole seconds, the fraction dropped
AsSecs(ticks) == ticks \div TicksPerSec

\* the pieces of s between occurrences of the byte sep
Split(s, sep) ==
    LET cuts == {k \in 1..Len(s) : s[k] = sep}
        RECURSIVE Pieces(_)
        Pieces(from) ==
            LET ahead == {k \in cuts : k >= from}
            IN  IF ahead = {} THEN <<SubSeq(s, from, Len(s))>>
                ELSE LET i == CHOOSE k \in ahead : \A j \in ahead : k <= j
                     IN  <<SubSeq(s, from, i - 1)>> \o Pieces(i + 1)
    IN  Pieces(1)

(* ------------------------------------------------------------------ *)
(* std::path::Path                                                     *)
(* ------------------------------------------------------------------ *)

\* Path::components, without the root: '/' separates, empty pieces and "."
\* are dropped
Components(path) ==
    SelectSeq(Split(path, 47), LAMBDA c : c # <<>> /\ c # <<46>>)

\* Path::file_name: the last component unless it is ".."; <<>> stands for None
\* (no component is empty)
FileNameOf(path) ==
    LET cs == Components(path)
    IN  IF cs = <<>> \/ cs[Len(cs)] = <<46, 46>> THEN <<>> ELSE cs[Len(cs)]

\* the index of the last '.' in name, 0 when there is none
LastDot(name) ==
    IF ~ContainsAny(name, {46}) THEN 0
    ELSE CHOOSE k \in 1..Len(name) :
             name[k] = 46 /\ \A j \in (k + 1)..Len(name) : name[j] # 46

\* Path::file_stem: the name up to its last '.', the whole name when it has
\* no '.' or only a leading one; "" for None (unwrap_or_default)
FileStem(path) ==
    LET name == FileNameOf(path)
        k == LastDot(name)
    IN  IF k <= 1 THEN name ELSE SubSeq(name, 1, k - 1)

\* Path::extension: [some |-> FALSE] for None, else the text after the last '.'
Extension(path) ==
    LET name == FileNameOf(path)
        k == LastDot(name)
    IN  IF k <= 1 THEN [some |-> FALSE, ext |-> <<>>]
        ELSE [some |-> TRUE, ext |-> SubSeq(name, k + 1, Len(name))]

\* ".txt"
TxtSuffix == <<46, 116, 120, 116>>

\* a slip: the stem is cut from the whole route segment, not from its last
\* component
ParseFilehashWholePath(file_hash) ==
    [file_name |-> (IF LastDot(file_hash) <= 1 THEN file_hash
                    ELSE SubSeq(file_hash, 1, LastDot(file_hash) - 1)) \o TxtSuffix,
     file_ext  |-> Extension(file_hash)]

\* parse_filehash: (file_name, file_ext)
ParseFilehash(file_hash) ==
    [file_name |-> FileStem(file_hash) \o TxtSuffix,
     file_ext  |-> Extension(file_hash)]

\* "files", the storage root (Args::file_path, "./files")
StorageRoot == <<102, 105, 108, 101, 115>>

\* Path::join: path replaces base when it is absolute
JoinPath(base, path) ==
    IF path # <<>> /\ path[1] = 47 THEN path ELSE base \o <<47>> \o path

\* the components of the file a path names, as the file system walks them
\* from the working directory (or from "/", which stands first, for an
\* absolute path): ".." leaves the directory reached so far, and stays when
\* there is none to leave
RECURSIVE Walk(_, _)
Walk(reached, cs) ==
    IF cs = <<>> THEN reached
    ELSE IF cs[1] = <<46, 46>> /\ reached # <<>> /\ reached[Len(reached)] # <<46, 46>>
              /\ reached[Len(reached)] # <<47>>
         THEN Walk(SubSeq(reached, 1, Len(reached) - 1), Tail(cs))
         ELSE IF cs[1] = <<46, 46>> /\ reached # <<>> /\ reached[Len(reached)] = <<47>>
              THEN Walk(reached, Tail(cs))
              ELSE Walk(Append(reached, cs[1]), Tail(cs))

Resolved(path) ==
    Walk(IF path # <<>> /\ path[1] = 47 THEN <<(<<47>>)>> ELSE <<>>, Components(path))

\* file_path = FilePath::new(dir).join(&file_name): the file get_handler
\* and delete_handler check, read, stat and remove
FilePathOf(file_hash) == JoinPath(StorageRoot, ParseFilehash(file_hash).file_name)

(* ------------------------------------------------------------------ *)
(* Responses                                                           *)
(* ------------------------------------------------------------------ *)

\* "File not found"
MsgNotFound ==
    <<70, 105, 108, 101, 32, 110, 111, 116, 32, 102, 111, 117, 110, 100>>

\* "Permission denied"
MsgForbidden ==
    <<80, 101, 114, 109, 105, 115, 115, 105, 111, 110, 32, 100, 101, 110,
      105, 101, 100>>

\* "stream did not contain valid UTF-8", the text of the io::Error that
\* read_to_string returns for bytes that are not UTF-8
MsgInvalidUtf8 ==
    <<115, 116, 114, 101, 97, 109, 32, 100, 105, 100, 32, 110, 111, 116, 32,
      99, 111, 110, 116, 97, 105, 110, 32, 118, 97, 108, 105, 100, 32, 85, 84,
      70, 45, 56>>

TextPlain == "text/plain; charset=utf-8"

TextHtml == "text/html; charset=utf-8"

Response(status, ctype, location, body) ==
    [status |-> status, ctype |-> ctype, location |-> location, body |-> body]

\* no response at all: nothing was answered yet, or the handler panicked and
\* the connection was dropped
NoResponse == Response(0, "", <<>>, <<>>)

\* a slip: NotFound answered like the errors of the file system
NotFoundAsServerError == Response(500, TextPlain, <<>>, MsgNotFound)

\* AppError::into_response: (status, message) as plain text
NotFound == Response(404, TextPlain, <<>>, MsgNotFound)

Forbidden == Response(403, TextPlain, <<>>, MsgForbidden)

IoError(msg) == Response(500, TextPlain, <<>>, msg)

\* the rejection of a body extractor (Bytes, String): DefaultBodyLimit
\* exceeded, or a String body that is not UTF-8; only the status is modelled
Rejection(status) == Response(status, TextPlain, <<>>, <<>>)

\* http::HeaderValue accepts visible ASCII, space, tab and bytes >= 128
IsHeaderValue(s) ==
    \A i \in 1..Len(s) : (s[i] >= 32 /\ s[i] # 127) \/ s[i] = 9

\* Redirect::temporary(uri).into_response(): 307 with Location: uri; the
\* constructor panics when uri is no valid header value
RedirectTemporary(uri) ==
    IF IsHeaderValue(uri) THEN Response(307, "", uri, <<>>) ELSE NoResponse

\* the head of the document, up to the theme's name
HtmlHead1 ==
    <<60, 104, 101, 97, 100, 62, 10, 32, 32, 32, 32, 60, 108, 105, 110, 107,
      32, 114, 101, 108, 61, 34, 115, 116, 121, 108, 101, 115, 104, 101, 101,
      116, 34, 32, 104, 114, 101, 102, 61, 34, 104, 116, 116, 112, 115, 58,
      47, 47, 99, 100, 110, 46, 106, 115, 100, 101, 108, 105, 118, 114, 46,
      110, 101, 116, 47, 103, 104, 47, 104, 105, 103, 104, 108, 105, 103, 104,
      116, 106, 115, 47, 99, 100, 110, 45, 114, 101, 108, 101, 97, 115, 101,
      64, 49, 49, 46, 57, 46, 48, 47, 98, 117, 105, 108, 100, 47, 115, 116,
      121, 108, 101, 115, 47>>

\* from '.css">' to '<pre><code class="'
HtmlHead2 ==
    <<46, 99, 115, 115, 34, 62, 10, 32, 32, 32, 32, 60, 115, 99, 114, 105,
      112, 116, 32, 115, 114, 99, 61, 34, 104, 116, 116, 112, 115, 58, 47, 47,
      99, 100, 110, 46, 106, 115, 100, 101, 108, 105, 118, 114, 46, 110, 101,
      116, 47, 103, 104, 47, 104, 105, 103, 104, 108, 105, 103, 104, 116, 106,
      115, 47, 99, 100, 110, 45, 114, 101, 108, 101, 97, 115, 101, 64, 49, 49,
      46, 57, 46, 48, 47, 98, 117, 105, 108, 100, 47, 104, 105, 103, 104, 108,
      105, 103, 104, 116, 46, 109, 105, 110, 46, 106, 115, 34, 62, 60, 47,
      115, 99, 114, 105, 112, 116, 62, 10, 32, 32, 32, 32, 60, 115, 99, 114,
      105, 112, 116, 62, 104, 108, 106, 115, 46, 104, 105, 103, 104, 108, 105,
      103, 104, 116, 65, 108, 108, 40, 41, 59, 60, 47, 115, 99, 114, 105, 112,
      116, 62, 10, 60, 47, 104, 101, 97, 100, 62, 10, 60, 98, 111, 100, 121,
      62, 10, 60, 112, 114, 101, 62, 60, 99, 111, 100, 101, 32, 99, 108, 97,
      115, 115, 61, 34>>

\* '">'
HtmlMid == <<34, 62>>

\* '</code></pre>', newline, '</body>', newline
HtmlTail ==
    <<60, 47, 99, 111, 100, 101, 62, 60, 47, 112, 114, 101, 62, 10, 60, 47,
      98, 111, 100, 121, 62, 10>>

\* a slip: the arguments of the format are taken in the wrong order
HtmlDocumentThemeClass(theme, ext, context) ==
    HtmlHead1 \o ext \o HtmlHead2 \o theme \o HtmlMid \o context \o HtmlTail

\* the formatdoc! of get_handler: the literal, unindented, with the theme,
\* the extension and the file's text put in as they are
HtmlDocument(theme, ext, context) ==
    HtmlHead1 \o theme \o HtmlHead2 \o ext \o HtmlMid \o context \o HtmlTail

\* "txt", "rs", "png"
ExtTxt == <<116, 120, 116>>

ExtRs == <<114, 115>>

ExtPng == <<112, 110, 103>>

\* "zz", an extension mime_guess does not know
ExtZz == <<122, 122>>

\* a slip: no guess is made, every stream is an octet stream
MimeGuessNone(ext) == "application/octet-stream"

\* mime_guess::from_ext(ext).first_or_octet_stream(), for the extensions the
\* model requests
MimeGuess(ext) ==
    IF ext = ExtPng THEN "image/png"
    ELSE IF ext = ExtRs THEN "text/x-rust"
    ELSE IF ext = ExtTxt THEN "text/plain"
    ELSE "application/octet-stream"

(* ------------------------------------------------------------------ *)
(* The storage directory: file name -> [content, mtime]                *)
(* ------------------------------------------------------------------ *)

NoFiles == [n \in {} |-> [content |-> <<>>, mtime |-> 0]]

\* Path::exists
Exists(fs, name) == name \in DOMAIN fs

\* File::create: a new empty file, or the existing one truncated
FsCreate(fs, name, t) ==
    [n \in DOMAIN fs \cup {name} |->
        IF n = name THEN [content |-> <<>>, mtime |-> t] ELSE fs[n]]

\* write_all (and sync_all) on the file just created
FsWriteAll(fs, name, bytes, t) ==
    [n \in DOMAIN fs |->
        IF n = name THEN [content |-> bytes, mtime |-> t] ELSE fs[n]]

\* a slip: the file removed is named by the identifier, without ".txt"
FsRemoveStem(fs, name) ==
    [n \in DOMAIN fs \ {SubSeq(name, 1, Len(name) - Len(TxtSuffix))} |-> fs[n]]

\* fs::remove_file
FsRemove(fs, name) == [n \in DOMAIN fs \ {name} |-> fs[n]]

\* file_to_timestamp: the modification time in whole seconds, in decimal
FileToTimestamp(fs, name) == U64ToString(AsSecs(fs[name].mtime))

(* ------------------------------------------------------------------ *)
(* The bodies the model uploads                                        *)
(* ------------------------------------------------------------------ *)

\* "http"
Http == <<104, 116, 116, 112>>

\* n bytes 'a'
Fill(n) == [i \in 1..n |-> 97]

\* nothing, a byte that is no UTF-8, a text as long as the limit allows, and
\* one a byte longer
StoreBodies == {<<>>, <<255>>, Fill(LimitSize), Fill(LimitSize + 1)}

\* "<", one byte and two bytes that are no UTF-8, "http", and "http" followed
\* by 's', a space, a tab, a carriage return or DEL
RenderBodies ==
    {<<60>>, <<255>>, <<255, 254>>, Http}
    \cup {Http \o <<b>> : b \in {115, 32, 9, 13, 127}}

\* the body of the uploads that other requests run into
RaceBodies == {Fill(2)}

Bodies == StoreBodies \cup RenderBodies \cup RaceBodies

(* ------------------------------------------------------------------ *)
(* The handlers                                                        *)
(* ------------------------------------------------------------------ *)

\* a slip: only a text with the scheme's colon, "http:", is taken for a URL
IsStoredUrlWithColon(content) ==
    StartsWith(content, Http \o <<58>>) /\ ~ContainsAny(content, {32, 10})

\* content.starts_with("http") && !content.contains([' ', '\n'])
IsStoredUrl(content) ==
    StartsWith(content, Http) /\ ~ContainsAny(content, {32, 10})

\* get_handler, None | Some("txt"): the file read as a string, then a
\* redirect or the text itself
PlainOrRedirect(content) ==
    IF ~IsUtf8(content) THEN IoError(MsgInvalidUtf8)
    ELSE IF IsStoredUrl(content) THEN RedirectTemporary(content)
    ELSE Response(200, TextPlain, <<>>, content)

\* get_handler, Some(ext): the highlighted document, or the file streamed
\* when it is no string
HtmlOrStream(ext, content) ==
    IF IsUtf8(content)
    THEN Response(200, TextHtml, <<>>, HtmlDocument(SyntaxTheme, ext, content))
    ELSE Response(200, MimeGuess(ext), <<>>, content)

\* match file_ext.as_deref() { None | Some("txt") => .., Some(ext) => .. }
IsPlainExt(file_ext) == ~file_ext.some \/ file_ext.ext = ExtTxt

\* get_handler
GetHandler(fs, file_hash) ==
    LET p == ParseFilehash(file_hash)
    IN  IF ~Exists(fs, p.file_name) THEN NotFound
        ELSE IF IsPlainExt(p.file_ext)
             THEN PlainOrRedirect(fs[p.file_name].content)
             ELSE HtmlOrStream(p.file_ext.ext, fs[p.file_name].content)

\* a slip: a name that is taken is not written over, a "_" is put after the
\* hash until the name is free
FreeHash(fs, hash) ==
    IF ~(hash \o TxtSuffix \in DOMAIN fs) THEN hash
    ELSE IF ~(hash \o <<95>> \o TxtSuffix \in DOMAIN fs) THEN hash \o <<95>>
    ELSE hash \o <<95, 95>>

\* a slip: a body of exactly the limit is refused
WithinLimitStrict(body) == Len(body) < LimitSize

\* DefaultBodyLimit::max(limit_size), laid over every route: a body is read
\* only up to the limit
WithinLimit(body) == Len(body) <= LimitSize

\* the identifier of put_handler: hash_bytes = checksum.to_be_bytes(),
\* hash = URL_SAFE_NO_PAD.encode(&hash_bytes[0..4])
Hash(bytes) == Base64UrlNoPad(SubSeq(ToBeBytes(Checksum(bytes)), 1, 4))

\* Hash, computed once for each body of the model
HashMemo == [b \in Bodies |-> Hash(b)]

HashOf(bytes) == HashMemo[bytes]

\* the text put_handler answers:
\*   url: {protocol}://{host}/{hash}
\*   short: {hash}
\*   size: {size} bytes
\*   secret: {timestamp}
PutText(protocol, host, hash, size, timestamp) ==
    <<117, 114, 108, 58, 32>> \o protocol \o <<58, 47, 47>> \o host
        \o <<47>> \o hash \o <<10>>
    \o <<115, 104, 111, 114, 116, 58, 32>> \o hash \o <<10>>
    \o <<115, 105, 122, 101, 58, 32>> \o U64ToString(size)
        \o <<32, 98, 121, 116, 101, 115, 10>>
    \o <<115, 101, 99, 114, 101, 116, 58, 32>> \o timestamp \o <<10>>

\* X-Forwarded-Proto when the request has it, else "http"
ProtocolStr(proto) == IF proto.some THEN proto.value ELSE Http

\* a slip: put_handler with a collision check
PutHandlerNoOverwrite(fs, t, proto, host, bytes) ==
    IF ~WithinLimit(bytes) THEN [resp |-> Rejection(413), fs |-> fs]
    ELSE LET hash == FreeHash(fs, HashOf(bytes))
             file_name == hash \o TxtSuffix
             written == FsWriteAll(FsCreate(fs, file_name, t), file_name, bytes, t)
         IN  [resp |-> Response(200, TextPlain, <<>>,
                          PutText(ProtocolStr(proto), host, hash, Len(bytes),
                                  FileToTimestamp(written, file_name))),
              fs |-> written]

\* a slip: the upload of a blob that is there keeps its modification time
PutHandlerKeepsTime(fs, t, proto, host, bytes) ==
    IF ~WithinLimit(bytes) THEN [resp |-> Rejection(413), fs |-> fs]
    ELSE LET hash == HashOf(bytes)
             file_name == hash \o TxtSuffix
             at == IF Exists(fs, file_name) THEN fs[file_name].mtime ELSE t
             written == FsWriteAll(FsCreate(fs, file_name, at), file_name, bytes, at)
         IN  [resp |-> Response(200, TextPlain, <<>>,
                          PutText(ProtocolStr(proto), host, hash, Len(bytes),
                                  FileToTimestamp(written, file_name))),
              fs |-> written]

\* put_handler at time t: [resp, fs]
PutHandler(fs, t, proto, host, bytes) ==
    IF ~WithinLimit(bytes) THEN [resp |-> Rejection(413), fs |-> fs]
    ELSE LET hash == HashOf(bytes)
             file_name == hash \o TxtSuffix
             written == FsWriteAll(FsCreate(fs, file_name, t), file_name, bytes, t)
         IN  [resp |-> Response(200, TextPlain, <<>>,
                          PutText(ProtocolStr(proto), host, hash, Len(bytes),
                                  FileToTimestamp(written, file_name))),
              fs |-> written]

\* "File {file_hash} deleted successfully"
DeletedText(file_hash) ==
    <<70, 105, 108, 101, 32>> \o file_hash
    \o <<32, 100, 101, 108, 101, 116, 101, 100, 32, 115, 117, 99, 99, 101,
         115, 115, 102, 117, 108, 108, 121>>

\* a slip: the secret only has to begin the timestamp
SecretIsPrefix(secret, timestamp) == StartsWith(timestamp, secret)

\* secret == timestamp
SecretMatches(secret, timestamp) == secret = timestamp

\* delete_handler: [resp, fs]
DeleteHandler(fs, file_hash, secret) ==
    LET file_name == ParseFilehash(file_hash).file_name
    IN  IF ~WithinLimit(secret) THEN [resp |-> Rejection(413), fs |-> fs]
        ELSE IF ~IsUtf8(secret) THEN [resp |-> Rejection(400), fs |-> fs]
        ELSE IF ~Exists(fs, file_name) THEN [resp |-> NotFound, fs |-> fs]
        ELSE IF SecretMatches(secret, FileToTimestamp(fs, file_name))
             THEN [resp |-> Response(200, TextPlain, <<>>, DeletedText(file_hash)),
                   fs |-> FsRemove(fs, file_name)]
             ELSE [resp |-> Forbidden, fs |-> fs]

(* ------------------------------------------------------------------ *)
(* The cleaner                                                         *)
(* ------------------------------------------------------------------ *)

\* a slip: a file is kept one second longer
ExpiredLate(mtime, t, period) == AsSecs(t - mtime) > period + 1

\* a slip: a file is removed as soon as its age reaches the period
ExpiredEarly(mtime, t, period) == AsSecs(t - mtime) >= period

\* last_modified = metadata.modified()?.elapsed()?.as_secs();
\* last_modified > period
Expired(mtime, t, period) == AsSecs(t - mtime) > period

\* a slip: the expired entries are emptied, not removed
CleanUpTruncates(fs, t, period) ==
    [n \in DOMAIN fs |->
        IF Expired(fs[n].mtime, t, period)
        THEN [content |-> <<>>, mtime |-> fs[n].mtime]
        ELSE fs[n]]

\* clean_up: every entry of the directory that is expired is removed
CleanUp(fs, t, period) ==
    [n \in {m \in DOMAIN fs : ~Expired(fs[m].mtime, t, period)} |-> fs[n]]

(* ------------------------------------------------------------------ *)
(* The client of the tests: it keeps what the last successful PUT      *)
(* answered                                                            *)
(* ------------------------------------------------------------------ *)

IsSpace(b) == b \in {9, 10, 11, 12, 13, 32}

\* str::trim
RECURSIVE Trim(_)
Trim(s) ==
    IF s = <<>> THEN s
    ELSE IF IsSpace(s[1]) THEN Trim(Tail(s))
    ELSE IF IsSpace(s[Len(s)]) THEN Trim(SubSeq(s, 1, Len(s) - 1))
    ELSE s

\* extract_hash, extract_secret: the first line that starts with key, split
\* at ':', its second piece trimmed; <<>> when there is none
ExtractField(text, key) ==
    LET found == SelectSeq(Split(text, 10), LAMBDA l : StartsWith(l, key))
    IN  IF found = <<>> THEN <<>>
        ELSE LET parts == Split(found[1], 58)
             IN  IF Len(parts) >= 2 THEN Trim(parts[2]) ELSE <<>>

\* "short:"
KeyShort == <<115, 104, 111, 114, 116, 58>>

\* "secret:"
KeySecret == <<115, 101, 99, 114, 101, 116, 58>>

NoTicket == [st |-> "none", body |-> <<>>, short |-> <<>>, secret |-> <<>>]

\* the client after a PUT of body answered resp
TicketOfPut(old, body, resp) ==
    IF resp.status = 200
    THEN [st |-> "fresh", body |-> body,
          short |-> ExtractField(resp.body, KeyShort),
          secret |-> ExtractField(resp.body, KeySecret)]
    ELSE old

\* the file GET and DELETE of the ticket's identifier look at
TicketFile(t) == ParseFilehash(t.short).file_name

\* the ticket is spent when something other than the PUT that issued it
\* removes or writes its file; why says what did: "deleted" or "expired"
TicketKept(t, fs, fs2, why) ==
    IF t.st = "fresh"
       /\ (~Exists(fs2, TicketFile(t)) \/ fs2[TicketFile(t)] # fs[TicketFile(t)])
    THEN [t EXCEPT !.st = why]
    ELSE t

(* ------------------------------------------------------------------ *)
(* The requests the model sends                                        *)
(* ------------------------------------------------------------------ *)

\* the X-Forwarded-Proto header: absent, or "https"
NoProto == [some |-> FALSE, value |-> <<>>]

Protos == {NoProto, [some |-> TRUE, value |-> <<104, 116, 116, 112, 115>>]}

\* the Host header: "h"
Hosts == {<<104>>}

\* "nx", the identifier of no upload
UnknownHash == <<110, 120>>

\* the identifiers asked for: those of the bodies, and an unknown one
HashesOf(bodies) ==
    {HashOf(b) : b \in {c \in bodies : WithinLimit(c)}} \cup {UnknownHash}

\* what follows the identifier in the path: nothing, ".txt", ".rs", ".png",
\* ".zz"
Suffixes ==
    {<<>>, <<46>> \o ExtTxt, <<46>> \o ExtRs, <<46>> \o ExtPng, <<46>> \o ExtZz}

\* the two that tell the branches of a GET apart: nothing, ".rs"
StoreSuffixes == {<<>>, <<46>> \o ExtRs}

GetSegments(bodies, suffixes) == {h \o x : h \in HashesOf(bodies), x \in suffixes}

DeleteSegments(bodies) == HashesOf(bodies)

\* the bodies of DELETE: nothing, "x", every timestamp of the run, a text
\* longer than the limit, and a byte that is no UTF-8
Secrets ==
    {<<>>, <<120>>, <<255>>, Fill(LimitSize + 1)}
    \cup {U64ToString(sec) : sec \in 0..AsSecs(MaxTime)}

(* ------------------------------------------------------------------ *)
(* The state machine                                                   *)
(* ------------------------------------------------------------------ *)

VARIABLES
    files,     \* the storage directory
    now,       \* the clock, in ticks
    last,      \* the last operation: its request and what it answered
    ticket,    \* what the client holds of the last successful PUT
    inflight,  \* the handler that is between two of its awaits, if any
    sweep,     \* the cleaner task: where it is in its loop and in its pass
    earlier    \* the time of the last PUT, and what the PUT before it told

vars == <<files, now, last, ticket, inflight, sweep, earlier>>

\* the two tasks that the actions of whole handlers leave alone
tasks == <<inflight, sweep>>

\* the last PUT was the first of its blob
NoEarlier == [some |-> FALSE, secret |-> <<>>, at |-> 0, then |-> 0]

\* no handler is between two awaits
Idle == [op |-> "NONE", seg |-> <<>>, req |-> <<>>, pc |-> "", stamp |-> <<>>, done |-> 0]

\* the cleaner task in its first sleep (cleaner.rs:10): no pass yet
Asleep ==
    [pc |-> "asleep", result |-> "none", todo |-> {}, doomed |-> {},
     failed |-> {}, removed |-> {}]

Exchange(op, seg, req, resp) ==
    [op |-> op, seg |-> seg, req |-> req, resp |-> resp]

Init ==
    /\ files = NoFiles
    /\ now = 0
    /\ last = Exchange("INIT", <<>>, <<>>, NoResponse)
    /\ ticket = NoTicket
    /\ inflight = Idle
    /\ sweep = Asleep
    /\ earlier = NoEarlier

\* PUT / with body bytes; the exchange keeps, for seg, the name of the file
\* that File::create found there and truncated, if it found one
PutStored(proto, host, bytes) ==
    LET r == PutHandler(files, now, proto, host, bytes)
        t == TicketOfPut(ticket, bytes, r.resp)
        over == IF r.resp.status = 200 /\ Exists(files, TicketFile(t))
                THEN TicketFile(t)
                ELSE <<>>
    IN  /\ Cardinality(DOMAIN r.fs) <= MaxFiles
        /\ files' = r.fs
        /\ last' = Exchange("PUT", over, bytes, r.resp)
        /\ ticket' = t
        /\ UNCHANGED <<now, tasks>>

\* PUT / by a client that keeps only the answer
Put(proto, host, bytes) ==
    /\ PutStored(proto, host, bytes)
    /\ UNCHANGED earlier

\* PUT / by a client that keeps the time of its upload (then) and, when
\* the PUT before was of the same blob, the secret and the time of that
\* one (secret, at)
PutAgain(bytes) ==
    /\ \E host \in Hosts : PutStored(NoProto, host, bytes)
    /\ earlier' =
            IF last'.resp.status # 200 THEN earlier
            ELSE IF ticket.st = "fresh" /\ ticket'.short = ticket.short
            THEN [some |-> TRUE, secret |-> ticket.secret,
                  at |-> earlier.then, then |-> now]
            ELSE [NoEarlier EXCEPT !.then = now]

\* GET /{file_hash}
Get(file_hash) ==
    /\ last' = Exchange("GET", file_hash, <<>>, GetHandler(files, file_hash))
    /\ UNCHANGED <<files, now, ticket, tasks, earlier>>

\* DELETE /{file_hash} with body secret
Delete(file_hash, secret) ==
    LET r == DeleteHandler(files, file_hash, secret)
    IN  /\ files' = r.fs
        /\ last' = Exchange("DELETE", file_hash, secret, r.resp)
        /\ ticket' = TicketKept(ticket, files, r.fs, "deleted")
        /\ UNCHANGED <<now, tasks, earlier>>

\* one pass of the cleaner
Sweep ==
    /\ files' = CleanUp(files, now, CleanPeriod)
    /\ last' = Exchange("SWEEP", <<>>, <<>>, NoResponse)
    /\ ticket' = TicketKept(ticket, files, files', "expired")
    /\ UNCHANGED <<now, tasks, earlier>>

\* time passes
Tick ==
    /\ now < MaxTime
    /\ now' = now + 1
    /\ UNCHANGED <<files, last, ticket, tasks, earlier>>

PutAny(protos, bodies) ==
    \E proto \in protos, host \in Hosts, bytes \in bodies : Put(proto, host, bytes)

GetAny(bodies, suffixes) ==
    \E file_hash \in GetSegments(bodies, suffixes) : Get(file_hash)

DeleteAny(bodies) ==
    \E file_hash \in DeleteSegments(bodies), secret \in Secrets :
        Delete(file_hash, secret)

\* the service with its cleaner and its clock
Next ==
    \/ PutAny({NoProto}, StoreBodies)
    \/ GetAny(StoreBodies, StoreSuffixes)
    \/ DeleteAny(StoreBodies)
    \/ Sweep
    \/ Tick

Spec == Init /\ [][Next]_vars

\* uploads and retrievals alone, over the texts that GET renders in
\* different ways
NextRender == PutAny(Protos, RenderBodies) \/ GetAny(RenderBodies, Suffixes)

SpecRender == Init /\ [][NextRender]_vars

\* every text of '/', '.' and 'A' up to MaxSeg bytes
RECURSIVE Texts(_)
Texts(n) ==
    IF n = 0 THEN {<<>>}
    ELSE LET shorter == Texts(n - 1)
         IN  shorter \cup {Append(t, b) : t \in shorter, b \in {47, 46, 65}}

\* the route segments of the model of paths: the short texts but the empty
\* one, and the identifier of the empty upload behind "../", "x/../" and
\* "/", by itself or with ".rs", "/.." or "/." after it
PathSegments ==
    (Texts(MaxSeg) \ {<<>>})
    \cup {pre \o HashOf(<<>>) \o post :
            pre \in {<<46, 46, 47>>, <<120, 47, 46, 46, 47>>, <<47>>},
            post \in {<<>>, <<46>> \o ExtRs, <<47, 46, 46>>, <<47, 46>>}}

GetPath == \E file_hash \in PathSegments : Get(file_hash)

DeletePath ==
    \E file_hash \in PathSegments, secret \in {<<>>, <<48>>} :
        Delete(file_hash, secret)

\* uploads of the empty body, and GET and DELETE of any route segment
NextPath == PutAny({NoProto}, {<<>>}) \/ GetPath \/ DeletePath

SpecPath == Init /\ [][NextPath]_vars

(* ------------------------------------------------------------------ *)
(* The handlers, one await at a time.  Between the existence check and *)
(* the read of GET, between the check, the timestamp and the removal   *)
(* of DELETE, and between the creation, the writes and the answer of   *)
(* PUT, the requests of other clients and the cleaner run.             *)
(* ------------------------------------------------------------------ *)

\* the text of std::io::Error for ENOENT, which AppError::IoError answers
MsgNoEntry ==
    <<78,111,32,115,117,99,104,32,102,105,108,101,32,111,114,32,100,105,
      114,101,99,116,111,114,121,32,40,111,115,32,101,114,114,111,114,32,
      50,41>>

\* get_handler after its existence check: read_to_string, or the
\* rendering whose fallback opens the file; the error of either is
\* propagated by ? as AppError::IoError
GetAfterCheck(fs, file_hash) ==
    IF Exists(fs, ParseFilehash(file_hash).file_name)
    THEN GetHandler(fs, file_hash)
    ELSE IoError(MsgNoEntry)

\* get_handler up to its existence check, which passed
GetCheck(file_hash) ==
    /\ inflight = Idle
    /\ Exists(files, ParseFilehash(file_hash).file_name)
    /\ inflight' = [Idle EXCEPT !.op = "GET", !.seg = file_hash, !.pc = "checked"]
    /\ UNCHANGED <<files, now, last, ticket, sweep, earlier>>

\* get_handler from the read to the answer
GetRead ==
    /\ inflight.op = "GET"
    /\ last' = Exchange("GET", inflight.seg, <<>>, GetAfterCheck(files, inflight.seg))
    /\ inflight' = Idle
    /\ UNCHANGED <<files, now, ticket, sweep, earlier>>

\* delete_handler up to its existence check, which passed
DeleteCheck(file_hash, secret) ==
    /\ inflight = Idle
    /\ WithinLimit(secret)
    /\ IsUtf8(secret)
    /\ Exists(files, ParseFilehash(file_hash).file_name)
    /\ inflight' = [Idle EXCEPT !.op = "DELETE", !.seg = file_hash,
                                !.req = secret, !.pc = "checked"]
    /\ UNCHANGED <<files, now, last, ticket, sweep, earlier>>

\* delete_handler: file_to_timestamp(&file_path).await?
DeleteStat ==
    /\ inflight.op = "DELETE"
    /\ inflight.pc = "checked"
    /\ LET file_name == ParseFilehash(inflight.seg).file_name
       IN  IF Exists(files, file_name)
           THEN /\ inflight' = [inflight EXCEPT
                                    !.pc = "stamped",
                                    !.stamp = FileToTimestamp(files, file_name)]
                /\ UNCHANGED last
           ELSE /\ inflight' = Idle
                /\ last' = Exchange("DELETE", inflight.seg, inflight.req,
                                    IoError(MsgNoEntry))
    /\ UNCHANGED <<files, now, ticket, sweep, earlier>>

\* delete_handler: the comparison, fs::remove_file(&file_path).await?
\* and the answer
DeleteRemove ==
    /\ inflight.op = "DELETE"
    /\ inflight.pc = "stamped"
    /\ LET file_name == ParseFilehash(inflight.seg).file_name
           resp == IF ~SecretMatches(inflight.req, inflight.stamp) THEN Forbidden
                   ELSE IF ~Exists(files, file_name) THEN IoError(MsgNoEntry)
                   ELSE Response(200, TextPlain, <<>>, DeletedText(inflight.seg))
       IN  /\ files' = IF resp.status = 200 THEN FsRemove(files, file_name) ELSE files
           /\ last' = Exchange("DELETE", inflight.seg, inflight.req, resp)
           /\ ticket' = TicketKept(ticket, files, files', "deleted")
    /\ inflight' = Idle
    /\ UNCHANGED <<now, sweep, earlier>>

\* put_handler: File::create(&file_path).await?  The file is truncated
\* when it exists
PutCreate(bytes) ==
    /\ inflight = Idle
    /\ WithinLimit(bytes)
    /\ files' = FsCreate(files, HashOf(bytes) \o TxtSuffix, now)
    /\ Cardinality(DOMAIN files') <= MaxFiles
    /\ inflight' = [Idle EXCEPT !.op = "PUT", !.req = bytes, !.pc = "created"]
    /\ ticket' = TicketKept(ticket, files, files', "overwritten")
    /\ UNCHANGED <<now, last, sweep, earlier>>

\* put_handler: file.write_all(&bytes).await?, which writes the buffer
\* in one or several writes; k bytes now, at the position of the handle,
\* over what another upload may have written there.  The bytes written
\* to a file that was removed meanwhile are seen by nobody
PutWrite(k) ==
    /\ inflight.op = "PUT"
    /\ inflight.done + k <= Len(inflight.req)
    /\ LET file_name == HashOf(inflight.req) \o TxtSuffix
           upto == SubSeq(inflight.req, 1, inflight.done + k)
           old == files[file_name].content
       IN  files' = IF Exists(files, file_name)
                    THEN FsWriteAll(files, file_name,
                                    upto \o SubSeq(old, Len(upto) + 1, Len(old)), now)
                    ELSE files
    /\ inflight' = [inflight EXCEPT !.done = @ + k]
    /\ ticket' = TicketKept(ticket, files, files', "overwritten")
    /\ UNCHANGED <<now, last, sweep, earlier>>

\* put_handler: sync_all, file_to_timestamp(&file_path).await? and the
\* answer
PutRespond ==
    /\ inflight.op = "PUT"
    /\ inflight.done = Len(inflight.req)
    /\ LET hash == HashOf(inflight.req)
           file_name == hash \o TxtSuffix
           resp == IF ~Exists(files, file_name) THEN IoError(MsgNoEntry)
                   ELSE Response(200, TextPlain, <<>>,
                            PutText(ProtocolStr(NoProto), CHOOSE h \in Hosts : TRUE,
                                    hash, Len(inflight.req),
                                    FileToTimestamp(files, file_name)))
       IN  /\ last' = Exchange("PUT", <<>>, inflight.req, resp)
           /\ ticket' = TicketOfPut(ticket, inflight.req, resp)
    /\ inflight' = Idle
    /\ UNCHANGED <<files, now, sweep, earlier>>

\* the segments of the requests that meet the upload
RaceSegments == {HashOf(b) \o x : b \in RaceBodies, x \in StoreSuffixes}

GetCheckAny == \E file_hash \in RaceSegments : GetCheck(file_hash)

DeleteCheckAny ==
    \E file_hash \in HashesOf(RaceBodies), secret \in Secrets :
        DeleteCheck(file_hash, secret)

PutCreateAny == \E bytes \in RaceBodies : PutCreate(bytes)

PutWriteAny == \E k \in 1..2 : PutWrite(k)

\* one handler runs await by await; the requests of the other clients
\* and the cleaner run whole in between
NextRace ==
    \/ GetCheckAny \/ GetRead
    \/ DeleteCheckAny \/ DeleteStat \/ DeleteRemove
    \/ PutCreateAny \/ PutWriteAny \/ PutRespond
    \/ PutAny({NoProto}, RaceBodies)
    \/ GetAny(RaceBodies, {<<>>})
    \/ DeleteAny(RaceBodies)
    \/ Sweep
    \/ Tick

SpecRace == Init /\ [][NextRace]_vars

(* ------------------------------------------------------------------ *)
(* The cleaner task, one await at a time: cleaner_task sleeps, calls   *)
(* clean_up and sleeps again; clean_up lists the directory and then    *)
(* reads the metadata of each entry and removes the entry when it is   *)
(* older than the period.  sweep.failed and sweep.removed are what the *)
(* pass wrote with error! and info!.                                   *)
(* ------------------------------------------------------------------ *)

\* a slip: the error of clean_up is propagated out of the loop
AfterPassPropagated(result) == IF result = "Err" THEN "dead" ELSE "asleep"

\* cleaner_task after clean_up returned: the error is logged, if any,
\* and the task sleeps
AfterPass(result) == "asleep"

\* a slip: the first entry that fails ends the stream
AfterFailureAborted(todo, n) == {}

\* for_each_concurrent after the future of an entry logged its error:
\* the other entries are still to do
AfterFailure(todo, n) == todo \ {n}

\* the sleep is over: clean_up is called
SweepWake ==
    /\ sweep.pc = "asleep"
    /\ sweep' = [sweep EXCEPT !.pc = "listing"]
    /\ UNCHANGED <<files, now, last, ticket, inflight, earlier>>

\* fs::read_dir(path).await?  When it fails clean_up returns the error
SweepList(ok) ==
    /\ sweep.pc = "listing"
    /\ sweep' = IF ok
                THEN [pc |-> "running", result |-> sweep.result,
                      todo |-> DOMAIN files, doomed |-> {},
                      failed |-> {}, removed |-> {}]
                ELSE [pc |-> AfterPass("Err"), result |-> "Err",
                      todo |-> {}, doomed |-> {},
                      failed |-> {}, removed |-> {}]
    /\ UNCHANGED <<files, now, last, ticket, inflight, earlier>>

\* the future of one entry up to its comparison: entry?, fs::metadata,
\* modified()?.elapsed()?.as_secs() > period.  readable is whether the
\* entry and its metadata can be read
SweepStat(n, readable) ==
    /\ sweep.pc = "running"
    /\ n \in sweep.todo
    /\ sweep' = IF ~readable \/ ~Exists(files, n)
                THEN [sweep EXCEPT !.todo = AfterFailure(@, n),
                                   !.failed = @ \cup {n}]
                ELSE IF Expired(files[n].mtime, now, CleanPeriod)
                THEN [sweep EXCEPT !.todo = @ \ {n}, !.doomed = @ \cup {n}]
                ELSE [sweep EXCEPT !.todo = @ \ {n}]
    /\ UNCHANGED <<files, now, last, ticket, inflight, earlier>>

\* the future of one entry found older than the period:
\* fs::remove_file(&file_path).await?
SweepRemove(n) ==
    /\ sweep.pc = "running"
    /\ n \in sweep.doomed
    /\ IF Exists(files, n)
       THEN /\ files' = FsRemove(files, n)
            /\ sweep' = [sweep EXCEPT !.doomed = @ \ {n}, !.removed = @ \cup {n}]
       ELSE /\ files' = files
            /\ sweep' = [sweep EXCEPT !.doomed = AfterFailure(@, n),
                                      !.failed = @ \cup {n}]
    /\ ticket' = TicketKept(ticket, files, files', "expired")
    /\ UNCHANGED <<now, last, inflight, earlier>>

\* every future is done: clean_up returns Ok(())
SweepEnd ==
    /\ sweep.pc = "running"
    /\ sweep.todo = {}
    /\ sweep.doomed = {}
    /\ sweep' = [sweep EXCEPT !.pc = AfterPass("Ok"), !.result = "Ok"]
    /\ UNCHANGED <<files, now, last, ticket, inflight, earlier>>

\* the bodies uploaded while the cleaner runs
SweepBodies == {<<>>} \cup RaceBodies

SweepListAny == \E ok \in BOOLEAN : SweepList(ok)

SweepStatAny ==
    \E n \in {HashOf(b) \o TxtSuffix : b \in SweepBodies}, readable \in BOOLEAN :
        SweepStat(n, readable)

SweepRemoveAny ==
    \E n \in {HashOf(b) \o TxtSuffix : b \in SweepBodies} : SweepRemove(n)

\* a step of the cleaner task
CleanerTask ==
    SweepWake \/ SweepListAny \/ SweepStatAny \/ SweepRemoveAny \/ SweepEnd

\* DELETE by the client that holds the secret of the blob
DeleteOwn ==
    \E b \in SweepBodies :
        /\ Exists(files, HashOf(b) \o TxtSuffix)
        /\ Delete(HashOf(b), FileToTimestamp(files, HashOf(b) \o TxtSuffix))

\* the cleaner runs await by await; the requests run whole in between
NextSweeper ==
    \/ SweepWake \/ SweepListAny \/ SweepStatAny \/ SweepRemoveAny \/ SweepEnd
    \/ PutAny({NoProto}, SweepBodies)
    \/ DeleteOwn
    \/ Tick

SpecSweeper == Init /\ [][NextSweeper]_vars

\* the cleaner and the uploads of one body
NextLoop ==
    \/ SweepWake \/ SweepListAny \/ SweepStatAny \/ SweepRemoveAny \/ SweepEnd
    \/ PutAny({NoProto}, {<<>>})
    \/ Tick

\* the runtime resumes the spawned task when its sleep or its file
\* system call is over
SpecLoop == Init /\ [][NextLoop]_vars /\ WF_vars(CleanerTask)

(* ------------------------------------------------------------------ *)
(* Uploads of the same blob one after the other, and the DELETEs that  *)
(* try the secrets                                                     *)
(* ------------------------------------------------------------------ *)

PutAgainAny == \E bytes \in SweepBodies : PutAgain(bytes)

NextSecret == PutAgainAny \/ DeleteAny(SweepBodies) \/ Tick

SpecSecret == Init /\ [][NextSecret]_vars

(* ------------------------------------------------------------------ *)
(* The words of the claims                                             *)
(* ------------------------------------------------------------------ *)

\* space, tab, newline, vertical tab, form feed, carriage return
Whitespace == {9, 10, 11, 12, 13, 32}

\* a text that qualifies as a stored URL: it begins with "http" and has no
\* whitespace
QualifiesAsUrl(b) ==
    IsUtf8(b) /\ StartsWith(b, Http) /\ ~ContainsAny(b, Whitespace)

\* the file of the blob with identifier id: <storage root>/<id>.txt
BlobFile(id) == id \o TxtSuffix

\* the identifier of the blob kept in file name
BlobId(name) == SubSeq(name, 1, Len(name) - Len(TxtSuffix))

\* a modification time in whole seconds, in decimal
WholeSeconds(mtime) == U64ToString(mtime \div TicksPerSec)

\* the last operation was a GET of the identifier the client holds, without
\* extension, and nothing wrote to the blob since the client's PUT
GotTicketBack ==
    /\ last.op = "GET"
    /\ ticket.st = "fresh"
    /\ last.seg = ticket.short

\* a blob that is gone stays gone: a GET of the identifier of a ticket that
\* was spent answers 404 (any PUT hands the client a new ticket)
GoneAnswers404 ==
    \A x \in StoreSuffixes :
        (/\ ticket.st \in {"deleted", "expired"}
         /\ last'.op = "GET"
         /\ Get(ticket.short \o x))
            => last'.resp.status = 404

(* ------------------------------------------------------------------ *)
(* C1                                                                  *)
(* ------------------------------------------------------------------ *)

\* C1: a GET without extension of the identifier a successful PUT of b
\* returned, with nothing else done to that identifier in between, answers
\* 200 with body b, whatever bytes b is made of (stored URLs aside).
C1_RoundTrip ==
    (GotTicketBack /\ ~QualifiesAsUrl(ticket.body))
        => (last.resp.status = 200 /\ last.resp.body = ticket.body)

(* ------------------------------------------------------------------ *)
(* C2                                                                  *)
(* ------------------------------------------------------------------ *)

\* C2: a DELETE of the identifier of the client's PUT, with the secret that
\* PUT printed and no other write to the blob in between, answers 200 and
\* removes the blob; from then on a GET of the identifier answers 404 until
\* it is uploaded again.
C2_AuthorizedDelete ==
    [][/\ (ticket.st = "fresh" /\ last'.op = "DELETE" /\ Delete(ticket.short, ticket.secret))
            => /\ last'.resp.status = 200
               /\ ~Exists(files', BlobFile(ticket.short))
       /\ GoneAnswers404]_vars

\* the client's DELETE with the printed secret was answered 200 and the blob
\* is gone
C2_Witness ==
    /\ last.op = "DELETE"
    /\ last.seg = ticket.short
    /\ last.req = ticket.secret
    /\ ticket.st = "deleted"
    /\ last.resp.status = 200
    /\ ~Exists(files, BlobFile(ticket.short))

(* ------------------------------------------------------------------ *)
(* C3                                                                  *)
(* ------------------------------------------------------------------ *)

\* the DELETE of an existing blob with a text that is not its timestamp
WrongSecretDelete(h, secret) ==
    /\ last'.op = "DELETE"
    /\ Exists(files, BlobFile(h))
    /\ IsUtf8(secret)
    /\ secret # WholeSeconds(files[BlobFile(h)].mtime)
    /\ Delete(h, secret)

\* a GET of the identifier, whatever extension it asks for, answers after the
\* step what it answered before it
SameAnswers ==
    \A x \in Suffixes :
        GetHandler(files', last'.seg \o x) = GetHandler(files, last'.seg \o x)

\* C3 as stated: a DELETE of an existing blob whose body is any string other
\* than the blob's timestamp in whole seconds answers 403 "Permission
\* denied" and leaves the store as it was, so that a following GET answers
\* what it answered before.
C3_AnyStringRejected ==
    [][WrongSecretDelete(last'.seg, last'.req)
              => /\ last'.resp.status = 403
                 /\ last'.resp.body = MsgForbidden
                 /\ files' = files
                 /\ SameAnswers]_vars

\* C3, amended: such a DELETE answers 403 "Permission denied" when its body
\* is no longer than the upload limit and 413 when it is longer; either way
\* the store is left as it was (same blobs, same content, same timestamps)
\* and a GET of the blob answers what it answered before.
C3_RejectedDeleteChangesNothing ==
    [][WrongSecretDelete(last'.seg, last'.req)
              => /\ Len(last'.req) <= LimitSize
                    => (last'.resp.status = 403 /\ last'.resp.body = MsgForbidden)
                 /\ Len(last'.req) > LimitSize => last'.resp.status = 413
                 /\ files' = files
                 /\ SameAnswers]_vars

\* a DELETE with a wrong secret was answered 403 and the client's blob is
\* still there, its ticket still good
C3_Witness ==
    /\ last.op = "DELETE"
    /\ last.seg = ticket.short
    /\ last.req # ticket.secret
    /\ last.resp.status = 403
    /\ ticket.st = "fresh"
    /\ Exists(files, BlobFile(ticket.short))
    /\ files[BlobFile(ticket.short)].content = ticket.body

(* ------------------------------------------------------------------ *)
(* C4                                                                  *)
(* ------------------------------------------------------------------ *)

\* no byte of b is an ASCII control character
NoControl(b) == \A i \in 1..Len(b) : b[i] >= 32 /\ b[i] # 127

\* the last operation was a GET, without extension, of the blob in file n
GotBlob(n) == last.op = "GET" /\ Exists(files, n) /\ last.seg = BlobId(n)

C5_RedirectBeforeHighlight ==
    \A n \in DOMAIN files, x \in Suffixes :
        (/\ last.op = "GET"
         /\ last.seg = BlobId(n) \o x
         /\ QualifiesAsUrl(files[n].content)
         /\ NoControl(files[n].content))
            => (last.resp.status = 307 /\ last.resp.ctype # TextHtml)

(* ------------------------------------------------------------------ *)
(* C6                                                                  *)
(* ------------------------------------------------------------------ *)

\* the age of the file n, in ticks
Age(n) == now - files[n].mtime

\* C6 as stated: a pass of the cleaner removes every blob whose age exceeds
\* the retention period, and a GET of its identifier answers 404 from then
\* on.
C6_OlderThanPeriodRemoved ==
    [][/\ Sweep => \A n \in DOMAIN files :
                      Age(n) > CleanPeriod * TicksPerSec => ~Exists(files', n)
       /\ GoneAnswers404]_vars

\* C6, amended: a pass of the cleaner removes every blob whose age in whole
\* seconds (the fraction dropped) exceeds the retention period, that is
\* every blob at least one second older than the period, and a GET of its
\* identifier answers 404 from then on, until it is uploaded again.
C6_ExpiredRemoved ==
    [][/\ Sweep => \A n \in DOMAIN files :
                      Age(n) >= (CleanPeriod + 1) * TicksPerSec => ~Exists(files', n)
       /\ GoneAnswers404]_vars

\* a pass of the cleaner removed the client's blob
C6_Witness ==
    /\ last.op = "SWEEP"
    /\ ticket.st = "expired"
    /\ ~Exists(files, BlobFile(ticket.short))

(* ------------------------------------------------------------------ *)
(* C7                                                                  *)
(* ------------------------------------------------------------------ *)

\* the file n is no older than the retention period
Young(n) == Age(n) <= CleanPeriod * TicksPerSec

\* C7: a pass of the cleaner leaves every blob no older than the retention
\* period where it is, with its content and its modification time, and the
\* secret of such a blob still deletes it after the pass.
C7_YoungSurvive ==
    [][Sweep =>
        /\ \A n \in DOMAIN files :
              Young(n) => (Exists(files', n) /\ files'[n] = files[n])
        /\ (ticket.st = "fresh" /\ Young(BlobFile(ticket.short)))
              => /\ ticket'.st = "fresh"
                 /\ DeleteHandler(files', ticket.short, ticket.secret).resp.status = 200
       ]_vars

\* the cleaner passed, and the client's blob, as old as the period allows,
\* is still there
C7_Witness ==
    /\ last.op = "SWEEP"
    /\ ticket.st = "fresh"
    /\ Exists(files, BlobFile(ticket.short))
    /\ Age(BlobFile(ticket.short)) = CleanPeriod * TicksPerSec
    /\ files[BlobFile(ticket.short)].content = ticket.body

(* ------------------------------------------------------------------ *)
(* C8                                                                  *)
(* ------------------------------------------------------------------ *)

\* C8: a PUT of exactly the limit answers 200 and stores the body; a PUT
\* of more answers 413 and leaves the store as it was.
C8_SizeLimit ==
    [][(last'.op = "PUT" /\ \E proto \in Protos, host \in Hosts : Put(proto, host, last'.req))
              => /\ Len(last'.req) = LimitSize
                    => /\ last'.resp.status = 200
                       /\ \E n \in DOMAIN files' :
                             files'[n] = [content |-> last'.req, mtime |-> now]
                 /\ Len(last'.req) > LimitSize
                    => (last'.resp.status = 413 /\ files' = files)]_vars

\* a body one byte over the limit was refused, after one of exactly the
\* limit was stored
C8_Witness ==
    /\ last.op = "PUT"
    /\ Len(last.req) = LimitSize + 1
    /\ last.resp.status = 413
    /\ ticket.st = "fresh"
    /\ Len(ticket.body) = LimitSize
    /\ Exists(files, BlobFile(ticket.short))
    /\ files[BlobFile(ticket.short)].content = ticket.body

(* ------------------------------------------------------------------ *)
(* C9                                                                  *)
(* ------------------------------------------------------------------ *)

\* a GET of an identifier that has no blob answers 404 "File not found"
\* and touches nothing
MissingGet ==
    (/\ last'.op = "GET"
     /\ ~Exists(files, ParseFilehash(last'.seg).file_name)
     /\ Get(last'.seg))
            => /\ last'.resp.status = 404
               /\ last'.resp.body = MsgNotFound
               /\ files' = files

\* a DELETE, with a string for its body, of an identifier that has no blob
MissingDelete ==
    /\ last'.op = "DELETE"
    /\ ~Exists(files, BlobFile(last'.seg))
    /\ IsUtf8(last'.req)
    /\ Delete(last'.seg, last'.req)

\* C9 as stated: with no blob for the identifier, GET answers 404 "File not
\* found" and DELETE answers 404 whatever string is sent as the secret;
\* neither touches the store.
C9_NotFoundWhateverSecret ==
    [][/\ MissingGet
       /\ MissingDelete => (last'.resp.status = 404 /\ files' = files)]_vars

\* C9, amended: with no blob for the identifier, GET answers 404 "File not
\* found", and DELETE answers 404 whatever string no longer than the upload
\* limit is sent as the secret, the empty one included (a longer one is
\* answered 413); neither touches the store.
C9_NotFound ==
    [][/\ MissingGet
       /\ MissingDelete
             => /\ Len(last'.req) <= LimitSize => last'.resp.status = 404
                /\ Len(last'.req) > LimitSize => last'.resp.status = 413
                /\ files' = files]_vars

\* a DELETE without body, of an identifier whose blob the cleaner removed,
\* was answered 404
C9_Witness ==
    /\ last.op = "DELETE"
    /\ last.req = <<>>
    /\ ticket.st = "expired"
    /\ last.seg = ticket.short
    /\ ~Exists(files, BlobFile(ticket.short))
    /\ last.resp.status = 404
    /\ last.resp.body = MsgNotFound

(* ------------------------------------------------------------------ *)
(* C10                                                                 *)
(* ------------------------------------------------------------------ *)

\* C10: for every stored blob GET /{id}.txt answers what GET /{id}
\* answers, and for a text that is no URL both answer the text itself, as
\* plain text.
C10_ExtensionIndependence ==
    \A n \in DOMAIN files :
        (last.op = "GET" /\ last.seg \in {BlobId(n), BlobId(n) \o <<46>> \o ExtTxt})
            => /\ last.resp = GetHandler(files, BlobId(n))
               /\ last.resp = GetHandler(files, BlobId(n) \o <<46>> \o ExtTxt)
               /\ (IsUtf8(files[n].content) /\ ~QualifiesAsUrl(files[n].content))
                     => last.resp = Response(200, TextPlain, <<>>, files[n].content)

(* ------------------------------------------------------------------ *)
(* C11                                                                 *)
(* ------------------------------------------------------------------ *)

\* the extensions of the model other than "txt"
Langs == {ExtRs, ExtPng, ExtZz}

\* <code class="lang">text</code>
CodeElement(lang, text) ==
    <<60, 99, 111, 100, 101, 32, 99, 108, 97, 115, 115, 61, 34>> \o lang
    \o <<34, 62>> \o text \o <<60, 47, 99, 111, 100, 101, 62>>

\* the last operation was the GET of the blob in file n with extension ext
GotBlobAs(n, ext) ==
    last.op = "GET" /\ Exists(files, n) /\ last.seg = BlobId(n) \o <<46>> \o ext

\* C11: for a stored text that is no URL and every extension lang other
\* than "txt", GET /{id}.{lang} looks at the file GET /{id} looks at and
\* answers 200, content type HTML, with a document that has the code element
\* of class lang around the stored text, the text as it is stored.
C11_Highlighted ==
    \A n \in DOMAIN files, lang \in Langs :
        (/\ GotBlobAs(n, lang)
         /\ IsUtf8(files[n].content)
         /\ ~QualifiesAsUrl(files[n].content))
            => /\ ParseFilehash(last.seg).file_name = ParseFilehash(BlobId(n)).file_name
               /\ last.resp.status = 200
               /\ last.resp.ctype = TextHtml
               /\ Occurs(CodeElement(lang, files[n].content), last.resp.body)

\* GET /{id}.rs of the stored "<" was answered with the document, the "<"
\* in it as it is
C11_Witness ==
    \E n \in DOMAIN files :
        /\ GotBlobAs(n, ExtRs)
        /\ files[n].content = <<60>>
        /\ last.resp.status = 200
        /\ last.resp.ctype = TextHtml
        /\ Occurs(CodeElement(ExtRs, <<60>>), last.resp.body)

(* ------------------------------------------------------------------ *)
(* C12                                                                 *)
(* ------------------------------------------------------------------ *)

\* C12: for a stored blob that is no UTF-8 and every extension ext other
\* than "txt", GET /{id}.{ext} answers 200 with the stored bytes for its
\* body and a content type that the extension alone decides: image/png for
\* "png", the octet stream for an extension that is not known, and for any
\* extension the type every other binary blob gets with it.
C12_BinaryStream ==
    \A n \in DOMAIN files, ext \in Langs :
        (GotBlobAs(n, ext) /\ ~IsUtf8(files[n].content))
            => /\ last.resp.status = 200
               /\ last.resp.body = files[n].content
               /\ ext = ExtPng => last.resp.ctype = "image/png"
               /\ ext = ExtZz => last.resp.ctype = "application/octet-stream"
               /\ \A m \in DOMAIN files :
                     ~IsUtf8(files[m].content)
                         => GetHandler(files, BlobId(m) \o <<46>> \o ext).ctype
                                = last.resp.ctype

\* GET /{id}.png of the stored bytes FF FE was answered with them, as
\* image/png, a second binary blob in the store
C12_Witness ==
    \E n \in DOMAIN files :
        /\ GotBlobAs(n, ExtPng)
        /\ files[n].content = <<255, 254>>
        /\ last.resp = Response(200, "image/png", <<>>, <<255, 254>>)
        /\ \E m \in DOMAIN files : m # n /\ ~IsUtf8(files[m].content)

(* ------------------------------------------------------------------ *)
(* C13                                                                 *)
(* ------------------------------------------------------------------ *)

\* C13: the identifier a PUT returns, which is the name of the stored file
\* without ".txt", is 4 characters long: the first 4 of the URL-safe
\* unpadded encoding of the 4 big-endian bytes of the checksum.
C13_IdentifierLength ==
    (last.op = "PUT" /\ last.resp.status = 200)
        => /\ Len(ticket.short) = 4
           /\ ticket.short
                = SubSeq(Base64UrlNoPad(ToBeBytes(Checksum(last.req))), 1, 4)
           /\ Exists(files, BlobFile(ticket.short))

(* ------------------------------------------------------------------ *)
(* C14                                                                 *)
(* ------------------------------------------------------------------ *)

\* a step that is a PUT answered 200
StoredPut ==
    /\ last'.op = "PUT"
    /\ last'.resp.status = 200
    /\ \E proto \in Protos, host \in Hosts : Put(proto, host, last'.req)

\* C14: a PUT returns the identifier of its content alone: the one the
\* client's upload before it returned when the content is the same, whatever
\* was done and however much time passed in between; it writes the one file
\* of that identifier and no other; and when the store already holds the
\* content, the PUT leaves the same blobs with the same contents.
C14_Deterministic ==
    [][StoredPut =>
        LET id == ticket'.short
        IN  /\ id = HashOf(last'.req)
            /\ (ticket.st # "none" /\ ticket.body = last'.req) => id = ticket.short
            /\ DOMAIN files' = DOMAIN files \cup {BlobFile(id)}
            /\ \A n \in DOMAIN files \ {BlobFile(id)} : files'[n] = files[n]
            /\ files'[BlobFile(id)].content = last'.req
            /\ (Exists(files, BlobFile(id)) /\ files[BlobFile(id)].content = last'.req)
                  => /\ DOMAIN files' = DOMAIN files
                     /\ \A n \in DOMAIN files : files'[n].content = files[n].content
       ]_vars

\* a PUT found the file of its content there, a second or more after that
\* file's upload, and returned the identifier that names it; another blob
\* is in the store
C14_Witness ==
    /\ last.op = "PUT"
    /\ last.resp.status = 200
    /\ last.seg = BlobFile(ticket.short)
    /\ ticket.secret # <<48>>
    /\ ticket.short = HashOf(ticket.body)
    /\ files[BlobFile(ticket.short)].content = ticket.body
    /\ Cardinality(DOMAIN files) = 2

(* ------------------------------------------------------------------ *)
(* C20                                                                 *)
(* ------------------------------------------------------------------ *)

\* C20: a stored text with a space, a newline, a tab or a carriage return in
\* it is never answered with a redirect, even when it begins with "http":
\* GET /{id} answers 200 with the text as it is stored, as plain text.
C20_NoRedirectWithWhitespace ==
    \A n \in DOMAIN files :
        (/\ GotBlob(n)
         /\ IsUtf8(files[n].content)
         /\ ContainsAny(files[n].content, {32, 10, 9, 13}))
            => /\ last.resp.status # 307
               /\ last.resp = Response(200, TextPlain, <<>>, files[n].content)

(* ------------------------------------------------------------------ *)
(* C15                                                                 *)
(* ------------------------------------------------------------------ *)

\* the name is one component: it has no '/' and is neither "." nor ".."
PlainName(name) ==
    name # <<>> /\ ~ContainsAny(name, {47}) /\ name # <<46>> /\ name # <<46, 46>>

\* C15: whatever route segment a GET or a DELETE is sent, with '/', ".."
\* and dots as they come, the file the handler checks, reads or removes is
\* "<stem>.txt", one plain name, and the path the handler makes for it
\* leads to that name directly under the storage root; a request that found
\* a file (any answer but 404) found the one blob of the store.
C15_PathContainment ==
    last.op \in {"GET", "DELETE"} =>
        LET name == ParseFilehash(last.seg).file_name
        IN  /\ PlainName(name)
            /\ name = FileStem(last.seg) \o TxtSuffix
            /\ Resolved(FilePathOf(last.seg)) = Resolved(StorageRoot) \o <<name>>
            /\ last.resp.status # 404 => name = BlobFile(HashOf(<<>>))

\* DELETE /../AAAAAA with the secret of AAAAAA was answered 200: it removed
\* AAAAAA.txt of the storage root
C15_Witness ==
    /\ last.op = "DELETE"
    /\ last.seg = <<46, 46, 47>> \o ticket.short
    /\ last.resp.status = 200
    /\ ticket.st = "deleted"
    /\ Resolved(FilePathOf(last.seg)) = <<StorageRoot, BlobFile(ticket.short)>>

(* ------------------------------------------------------------------ *)
(* C16                                                                 *)
(* ------------------------------------------------------------------ *)

\* the handler between two awaits looks at a file that is gone
Vanished ==
    /\ inflight.op \in {"GET", "DELETE"}
    /\ ~Exists(files, ParseFilehash(inflight.seg).file_name)

\* C16: when the blob is removed by a concurrent DELETE or sweep after a
\* GET or DELETE handler passed its existence check and before it reads,
\* stats or removes the file, the handler answers 404, never 500.
C16_VanishedIsNotFound ==
    [][(Vanished /\ inflight' = Idle) => last'.resp.status = 404]_vars

(* ------------------------------------------------------------------ *)
(* C17                                                                 *)
(* ------------------------------------------------------------------ *)

\* C17: a GET that runs while a PUT overwrites the same identifier sees
\* the complete old content, the complete new content or not-found,
\* never an empty or partially written blob.  Old and new content of an
\* identifier are the body it is the identifier of; the ticket tells
\* that an earlier PUT of that body was answered.
C17_NoPartialRead ==
    \A b \in RaceBodies :
        (/\ last.op = "GET"
         /\ last.seg = HashOf(b)
         /\ ticket.st # "none"
         /\ ticket.body = b
         /\ inflight.op = "PUT"
         /\ inflight.req = b
         /\ last.resp.status = 200) => last.resp.body = b

(* ------------------------------------------------------------------ *)
(* C18                                                                 *)
(* ------------------------------------------------------------------ *)

\* the entries of the pass that are not yet done with
Pending == sweep.todo \cup sweep.doomed

\* the step logs the failure of an entry
EntryFails == sweep.pc = "running" /\ sweep'.failed # sweep.failed

\* C18: when one entry of a pass fails (unreadable, or removed by a
\* concurrent request), the failure is only logged: every other entry
\* stays in the pass, an entry met afterwards that is older than the
\* period is removed, and the pass ends only when no entry is left,
\* with success.
C18_FailureIsolated ==
    [][/\ EntryFails =>
            /\ sweep'.pc = "running"
            /\ sweep'.result = sweep.result
            /\ files' = files
            /\ \A m \in Pending \ sweep'.failed :
                    /\ m \in sweep'.todo <=> m \in sweep.todo
                    /\ m \in sweep'.doomed <=> m \in sweep.doomed
       /\ \A n \in sweep.todo \ (sweep'.todo \cup sweep'.failed) :
            (sweep.failed # {} /\ Expired(files[n].mtime, now, CleanPeriod))
                => n \in sweep'.doomed
       /\ \A n \in sweep.doomed \ (sweep'.doomed \cup sweep'.failed) :
            sweep.failed # {} => (n \in sweep'.removed /\ ~Exists(files', n))
       /\ (sweep.pc = "running" /\ sweep'.pc # "running") =>
            /\ Pending = {}
            /\ sweep'.result = "Ok"
            /\ sweep'.pc = "asleep"]_vars

\* a pass has ended with success in which one entry failed and another,
\* older than the period, was removed
C18_Witness ==
    /\ sweep.pc = "asleep"
    /\ sweep.result = "Ok"
    /\ sweep.failed # {}
    /\ sweep.removed # {}
    /\ sweep.failed \cap sweep.removed = {}
    /\ \A n \in sweep.removed : ~Exists(files, n)

(* ------------------------------------------------------------------ *)
(* C19                                                                 *)
(* ------------------------------------------------------------------ *)

\* a pass is over: clean_up has returned and the task sleeps
PassOver == sweep.pc = "asleep" /\ sweep.result # "none"

\* C19: after every pass, also one that failed as a whole because the
\* directory could not be listed, the cleaner task is alive and in the
\* end starts another pass; no failure ends the task.
C19_LoopNeverStops ==
    /\ [](sweep.pc \in {"asleep", "listing", "running"})
    /\ (PassOver ~> sweep.pc = "listing")
    /\ ((PassOver /\ sweep.result = "Err") ~> sweep.pc = "listing")

\* a pass starts after a pass that failed as a whole
C19_Witness == sweep.pc = "listing" /\ sweep.result = "Err"

(* ------------------------------------------------------------------ *)
(* C21                                                                 *)
(* ------------------------------------------------------------------ *)

\* what DELETE of the ticket's blob with this secret would answer now
DeleteAnswer(secret) == DeleteHandler(files, ticket.short, secret).resp.status

\* C21: after PUTs of the same identifier one after the other, DELETE is
\* authorized by the secret of the most recent successful PUT and by no
\* other, that secret is the whole second of that PUT, and the secret
\* the PUT before printed is answered 403 unless both PUTs fell in the
\* same second.
C21_SecretSuperseded ==
    ticket.st = "fresh" =>
        /\ ticket.secret = U64ToString(AsSecs(earlier.then))
        /\ \A secret \in Secrets \cup {earlier.secret} :
                DeleteAnswer(secret) = 200 <=> secret = ticket.secret
        /\ earlier.some =>
                /\ DeleteAnswer(earlier.secret) \in {200, 403}
                /\ DeleteAnswer(earlier.secret) = 403
                        <=> AsSecs(earlier.at) # AsSecs(earlier.then)

\* the secret of the PUT before, of another second, was tried and
\* answered 403
C21_Witness ==
    /\ ticket.st = "fresh"
    /\ earlier.some
    /\ earlier.secret # ticket.secret
    /\ last.op = "DELETE"
    /\ last.seg = ticket.short
    /\ last.req = earlier.secret
    /\ last.resp.status = 403

(* ------------------------------------------------------------------ *)
(* C22                                                                 *)
(* ------------------------------------------------------------------ *)

\* C22: whatever the requests do during a pass, the blob the cleaner
\* removes is older than the period at the moment it is removed; the
\* upload that overwrote an expired blob after the cleaner read its
\* metadata is not lost.
C22_SweepSparesFresh ==
    [][\A n \in sweep'.removed \ sweep.removed :
            Expired(files[n].mtime, now, CleanPeriod)]_vars

(* ------------------------------------------------------------------ *)
(* C23                                                                 *)
(* ------------------------------------------------------------------ *)

\* the step is the end of a DELETE that answers 200: the file it names
\* goes
DeleteSucceeds ==
    /\ last'.op = "DELETE"
    /\ last'.resp.status = 200
    /\ Exists(files, ParseFilehash(last'.seg).file_name)
    /\ ~Exists(files', ParseFilehash(last'.seg).file_name)

\* C23: whatever runs meanwhile, the DELETE that answers 200 removes the
\* version of the blob whose timestamp is the secret it was given; the
\* upload of the same identifier that completed after the handler took
\* the timestamp is not removed.
C23_DeleteSparesNewer ==
    [][DeleteSucceeds =>
            FileToTimestamp(files, ParseFilehash(last'.seg).file_name) = last'.req]_vars

(* ------------------------------------------------------------------ *)
(* C24                                                                 *)
(* ------------------------------------------------------------------ *)

\* every file of the store is named, directly under the root, by the
\* identifier of its content
ContentAddressed(fs) ==
    \A n \in DOMAIN fs :
        /\ PlainName(n)
        /\ Resolved(JoinPath(StorageRoot, n)) = <<StorageRoot, n>>
        /\ n = HashOf(fs[n].content) \o TxtSuffix

\* the files after the step are files of before, as they were
OnlyRemoves == \A n \in DOMAIN files' : Exists(files, n) /\ files'[n] = files[n]

\* C24: after any sequence of PUT, GET, DELETE and sweeps, every blob of
\* the store is a file "<identifier>.txt" directly under the storage
\* root whose content has that identifier; GET, DELETE and the cleaner
\* create no blob and change no content.
C24_ContentAddressed ==
    [][/\ ContentAddressed(files')
       /\ last'.op \in {"GET", "DELETE", "SWEEP"} => OnlyRemoves]_vars

\* a DELETE removed the client's blob and left another one, which is not
\* empty, as it was
C24_Witness ==
    /\ last.op = "DELETE"
    /\ last.resp.status = 200
    /\ ticket.st = "deleted"
    /\ ~Exists(files, TicketFile(ticket))
    /\ \E n \in DOMAIN files : files[n].content # <<>>
    /\ ContentAddressed(files)

====
